---- MODULE Spec2Model ----
(***************************************************************************)
(* prepdocscsv.py: a command-line script that loads the rows of a CSV file *)
(* and uploads them to a search index in batches, creating the index when  *)
(* it is absent, or purges the whole index (--removeall).                  *)
(*                                                                         *)
(* The script is single threaded.  Its state is the parsed arguments, the  *)
(* module-level credentials, the locals of the running function and the    *)
(* position in the script (pc).  The search service is the environment:    *)
(* the set of index names, the documents of the target index, and the      *)
(* search view of those documents, which lags behind deletions.  Every     *)
(* call that leaves the process is appended to trace, every printed line   *)
(* to out.                                                                 *)
(***************************************************************************)
EXTENDS Integers, Sequences, FiniteSets

VARIABLES
    args,           \* argparse namespace: removeall, remove, verbose, searchkey, index
    csv,            \* the file named by args.files: exists, fieldnames, nrows
    pc,             \* position in the script
    err,            \* the uncaught exception that ended the run, or NoErr
    default_creds,  \* module global, line 32
    search_creds,   \* module global, line 33
    made,           \* credential objects constructed so far, in order
    client,         \* index_client / search_client of the running function
    sections,       \* the list passed to index_sections
    pos,            \* how many elements of sections the for loop has consumed
    batch,          \* batch.actions of the current IndexDocumentsBatch
    i,              \* index_sections' counter
    results,        \* index_sections' local: per-record success flags
    succeeded,      \* index_sections' local
    bound,          \* which of the locals results, succeeded are bound
    r,              \* remove_from_index' local: count and documents of the last search
    indexes,        \* service: the index listing, one entry per index created
    index_docs,     \* service: keys of the documents of index args.index, ascending
    view,           \* service: the documents as search and count see them
    lag,            \* service: searches answered from a stale view since the last refresh
    ncalls,         \* harness: calls of create_search_index made so far
    trace,          \* calls that left the process (and the open of the CSV file)
    out             \* lines printed

vars == <<args, csv, pc, err, default_creds, search_creds, made, client, sections,
          pos, batch, i, results, succeeded, bound, r, indexes, index_docs, view,
          lag, ncalls, trace, out>>

----------------------------------------------------------------------------
(* Program constants *)

\* line 74: i % 1000
BatchSize == 1000
\* line 91: top=1000
Top == 1000
\* line 97: time.sleep(2)
SleepSeconds == 2

(* Bounds of the model *)

\* the longest list handed to index_sections on its own
MaxSections == 2500
\* the most data rows of a CSV file in a run of the whole script
MaxRows == 1001
\* the most documents in the index before a purge
MaxDocs == 1001
\* the most consecutive searches the service answers from a stale view
MaxLag == 2
\* how many times in a row create_search_index is called on its own
MaxEnsureCalls == 3

----------------------------------------------------------------------------
(* Values *)

None == "<None>"
NoErr == "none"
Keys == {"k1", ""}
IndexNames == {"myindex", "other", "third"}
RequiredColumns == {"id", "name", "description"}

NoCred == [type |-> "None", key |-> ""]
DefaultAzureCredential == [type |-> "DefaultAzureCredential", key |-> ""]
AzureKeyCredential(k) == [type |-> "AzureKeyCredential", key |-> k]

NoClient == [kind |-> "none", index_name |-> "", credential |-> NoCred]
SearchIndexClient(cred) == [kind |-> "SearchIndexClient", index_name |-> "", credential |-> cred]
SearchClient(name, cred) == [kind |-> "SearchClient", index_name |-> name, credential |-> cred]

\* one entry of trace
Event(op, cl, name, docs, n) ==
    [op |-> op, cred |-> cl.credential, name |-> name, docs |-> docs, n |-> n]

\* a printed line: its text, and the numbers formatted into it
Line(msg, a, b) == [msg |-> msg, a |-> a, b |-> b]

\* print(...) guarded by a condition (if args.verbose: print(...))
Echo(o, cond, line) == IF cond THEN Append(o, line) ELSE o

\* keys 1..n in ascending order
Ids(n) == [k \in 1..n |-> k]

Range(s) == {s[k] : k \in 1..Len(s)}

----------------------------------------------------------------------------
(* Lines 31-33: the credentials *)

ResolveDefaultCreds(searchkey) ==
    IF searchkey = None THEN DefaultAzureCredential ELSE NoCred

\* a resolver that tests the key for truth, not for None
MutResolveTruthy(searchkey, dflt) ==
    IF searchkey = None \/ searchkey = "" THEN dflt ELSE AzureKeyCredential(searchkey)

ResolveSearchCreds(searchkey, dflt) ==
    IF searchkey = None THEN dflt ELSE AzureKeyCredential(searchkey)

\* the credential objects lines 32 and 33 construct, in order
Constructed(searchkey) ==
    (IF searchkey = None THEN <<DefaultAzureCredential>> ELSE <<>>)
    \o (IF searchkey = None THEN <<>> ELSE <<AzureKeyCredential(searchkey)>>)

Credentials ==
    /\ pc = "creds"
    /\ default_creds' = ResolveDefaultCreds(args.searchkey)
    /\ search_creds' = ResolveSearchCreds(args.searchkey, default_creds')
    /\ made' = made \o Constructed(args.searchkey)
    /\ pc' = "dispatch"
    /\ UNCHANGED <<args, csv, err, client, sections, pos, batch, i, results,
                   succeeded, bound, r, indexes, index_docs, view, lag, ncalls,
                   trace, out>>

----------------------------------------------------------------------------
(* Lines 99-103: the dispatch *)

\* a dispatch that creates the index whatever --remove says
MutDispatchIgnoresRemove(a) ==
    IF a.removeall THEN "rfi_start" ELSE "csi_start"

\* a dispatch that lets --remove win over --removeall
MutDispatchRemoveFirst(a) ==
    IF a.remove THEN "open_csv"
    ELSE IF a.removeall THEN "rfi_start"
    ELSE "csi_start"

\* a dispatch that never creates the index
MutDispatchNeverEnsures(a) ==
    IF a.removeall THEN "rfi_start" ELSE "open_csv"

DispatchTarget(a) ==
    IF a.removeall THEN "rfi_start"
    ELSE IF ~a.remove THEN "csi_start"
    ELSE "open_csv"

Dispatch ==
    /\ pc = "dispatch"
    /\ pc' = DispatchTarget(args)
    /\ UNCHANGED <<args, csv, err, default_creds, search_creds, made, client,
                   sections, pos, batch, i, results, succeeded, bound, r, indexes,
                   index_docs, view, lag, ncalls, trace, out>>

----------------------------------------------------------------------------
(* Lines 35-62: create_search_index *)

CSI_Start ==
    /\ pc = "csi_start"
    /\ out' = Echo(out, args.verbose, Line("Ensuring search index exists", 0, 0))
    /\ client' = SearchIndexClient(search_creds)
    /\ ncalls' = ncalls + 1
    /\ pc' = "csi_check"
    /\ UNCHANGED <<args, csv, err, default_creds, search_creds, made, sections,
                   pos, batch, i, results, succeeded, bound, r, indexes,
                   index_docs, view, lag, trace>>

\* a creation that does not look at the listing
MutAlwaysCreate(name, listing) == TRUE

\* line 39: the condition under which the index is created
MustCreate(name, listing) == name \notin Range(listing)

\* lines 39-62; the script goes on at `next`
CSI_Check(next) ==
    /\ pc = "csi_check"
    /\ LET listed == Append(trace, Event("list_index_names", client, "", <<>>, 0))
       IN IF MustCreate(args.index, indexes)
          THEN /\ out' = Echo(out, args.verbose, Line("Creating search index", 0, 0))
               /\ trace' = Append(listed, Event("create_index", client, args.index, <<>>, 0))
               /\ indexes' = Append(indexes, args.index)
          ELSE /\ out' = Echo(out, args.verbose, Line("Search index already exists", 0, 0))
               /\ trace' = listed
               /\ indexes' = indexes
    /\ pc' = next
    /\ UNCHANGED <<args, csv, err, default_creds, search_creds, made, client,
                   sections, pos, batch, i, results, succeeded, bound, r,
                   index_docs, view, lag, ncalls>>

----------------------------------------------------------------------------
(* Lines 104-110: the CSV file *)

\* csv.DictReader: row k as a mapping from the header's names
Row(fieldnames, k) == [c \in fieldnames |-> k]

\* line 109: the document record of a row
Section(row) == [id |-> row["id"], name |-> row["name"], description |-> row["description"]]

\* line 109 raises KeyError on the first row when a column is missing
LookupFails(file) == file.nrows > 0 /\ ~(RequiredColumns \subseteq file.fieldnames)

OpenCSV ==
    /\ pc = "open_csv"
    /\ LET said == Append(out, Line("Processing CSV file...", 0, 0))
       IN IF csv.exists
          THEN /\ trace' = Append(trace, Event("open", NoClient, "", <<>>, 0))
               /\ out' = Append(said, Line("Header:", 0, 0))
               /\ pc' = "read_rows"
               /\ err' = err
          ELSE /\ trace' = trace
               /\ out' = said
               /\ pc' = "failed"
               /\ err' = "FileNotFoundError"
    /\ UNCHANGED <<args, csv, default_creds, search_creds, made, client, sections,
                   pos, batch, i, results, succeeded, bound, r, indexes,
                   index_docs, view, lag, ncalls>>

ReadRows ==
    /\ pc = "read_rows"
    /\ IF LookupFails(csv)
       THEN /\ pc' = "failed"
            /\ err' = "KeyError"
            /\ sections' = sections
       ELSE /\ pc' = "is_start"
            /\ err' = err
            /\ sections' = [k \in 1..csv.nrows |-> Section(Row(csv.fieldnames, k))]
    /\ UNCHANGED <<args, csv, default_creds, search_creds, made, client, pos,
                   batch, i, results, succeeded, bound, r, indexes, index_docs,
                   view, lag, ncalls, trace, out>>

----------------------------------------------------------------------------
(* Lines 64-83: index_sections *)

\* The service's answer to an upload of n records: one success flag per record.
\* Which records fail is the service's choice; four patterns stand for it.
FlagPatterns == {"all", "none", "odd", "first"}

Flags(pattern, n) ==
    [k \in 1..n |-> CASE pattern = "all" -> TRUE
                      [] pattern = "none" -> FALSE
                      [] pattern = "odd" -> k % 2 = 0
                      [] OTHER -> k # 1]

\* lines 76, 82: sum([1 for r in results if r.succeeded])
CountSucceeded(res) == Cardinality({k \in 1..Len(res) : res[k]})

\* line 74: the batch is flushed inside the loop
FlushDue(count) == count % BatchSize = 0

\* a loop that retries: the first record of a batch with a failure is kept
MutKeepFailed ==
    LET added == batch \o SubSeq(sections, pos + 1, pos')
    IN IF \E k \in 1..Len(results') : ~results'[k] THEN <<added[1]>> ELSE <<>>

\* line 78: batch = IndexDocumentsBatch(), the batch the loop goes on with
AfterFlush == <<>>

\* a trailing flush that is made whatever the batch holds
MutTrailingFlushAlways(actions) == TRUE

\* line 80: the batch is flushed after the loop
TrailingFlushDue(actions) == Len(actions) > 0

IndexedLine(res, succ) == Line("Indexed sections, succeeded", Len(res), succ)

IS_Start ==
    /\ pc = "is_start"
    /\ out' = Echo(out, args.verbose, Line("Indexing sections into search index", 0, 0))
    /\ client' = SearchClient(args.index, search_creds)
    /\ batch' = <<>>
    /\ i' = 0
    /\ pos' = 0
    /\ pc' = "is_loop"
    /\ UNCHANGED <<args, csv, err, default_creds, search_creds, made, sections,
                   results, succeeded, bound, r, indexes, index_docs, view, lag,
                   ncalls, trace>>

\* lines 71-74: how many iterations the loop makes up to and including the
\* next one that flushes, or to the end of the list when none does
IterationsToFlush(count, left) ==
    LET due == {m \in 1..left : FlushDue(count + m)}
    IN IF due = {} THEN left ELSE CHOOSE m \in due : \A x \in due : m <= x

\* lines 71-78: the iterations of the for loop up to and including the next
\* flush.  Nothing leaves the process between two flushes, so the iterations
\* in between are taken in one step.
IS_Loop ==
    /\ pc = "is_loop"
    /\ pos < Len(sections)
    /\ pos' = pos + IterationsToFlush(i, Len(sections) - pos)
    /\ i' = i + (pos' - pos)
    /\ LET added == batch \o SubSeq(sections, pos + 1, pos')
       IN IF FlushDue(i')
          THEN \E pattern \in FlagPatterns :
                 /\ trace' = Append(trace, Event("index_documents", client, args.index, added, 0))
                 /\ results' = Flags(pattern, Len(added))
                 /\ succeeded' = CountSucceeded(results')
                 /\ bound' = {"results", "succeeded"}
                 /\ out' = Echo(out, args.verbose, IndexedLine(results', succeeded'))
                 /\ batch' = AfterFlush
          ELSE /\ batch' = added
               /\ UNCHANGED <<trace, results, succeeded, bound, out>>
    /\ UNCHANGED <<args, csv, pc, err, default_creds, search_creds, made, client,
                   sections, r, indexes, index_docs, view, lag, ncalls>>

\* lines 80-83: after the loop.  The report of line 83 is outside the if of
\* line 80: it reads results and succeeded whether or not line 81 bound them.
IS_Final ==
    /\ pc = "is_loop"
    /\ pos = Len(sections)
    /\ IF TrailingFlushDue(batch)
       THEN \E pattern \in FlagPatterns :
              /\ trace' = Append(trace, Event("upload_documents", client, args.index, batch, 0))
              /\ results' = Flags(pattern, Len(batch))
              /\ succeeded' = CountSucceeded(results')
              /\ bound' = {"results", "succeeded"}
       ELSE UNCHANGED <<trace, results, succeeded, bound>>
    /\ IF args.verbose
       THEN IF "results" \in bound'
            THEN /\ out' = Append(out, IndexedLine(results', succeeded'))
                 /\ pc' = "done"
                 /\ err' = err
            ELSE /\ out' = out
                 /\ pc' = "failed"
                 /\ err' = "UnboundLocalError"
       ELSE /\ out' = out
            /\ pc' = "done"
            /\ err' = err
    /\ UNCHANGED <<args, csv, default_creds, search_creds, made, client, sections,
                   pos, batch, i, r, indexes, index_docs, view, lag, ncalls>>

----------------------------------------------------------------------------
(* Lines 85-97: remove_from_index *)

\* line 91: search("", top=1000, include_total_count=True) against what the
\* service's search view holds: the total count, and at most Top documents.
\* Which documents a match-all query returns is the service's choice.
Page(docs, side) ==
    IF Len(docs) <= Top THEN docs
    ELSE IF side = "first" THEN SubSeq(docs, 1, Top)
    ELSE SubSeq(docs, Len(docs) - Top + 1, Len(docs))

SearchResult(docs, side) == [count |-> Len(docs), docs |-> Page(docs, side)]

\* a loop that stops as soon as less than a full page is left
MutPurgeDoneBelowTop(res) == res.count < Top

\* line 92: the loop ends
PurgeDone(res) == res.count = 0

\* a delete that misses the first document of the page
MutKeysOfTail(res) == [k \in 1..(Len(res.docs) - 1) |-> res.docs[k + 1]]

\* line 94: [{"id": d["id"]} for d in r]
KeysOf(res) == [k \in 1..Len(res.docs) |-> res.docs[k]]

\* the service's delete: the named documents leave the index
Without(docs, keys) == LET gone == Range(keys) IN SelectSeq(docs, LAMBDA d : d \notin gone)

RFI_Start ==
    /\ pc = "rfi_start"
    /\ out' = Echo(out, args.verbose, Line("Removing all documents from search index", 0, 0))
    /\ client' = SearchClient(args.index, search_creds)
    /\ pc' = "rfi_search"
    /\ UNCHANGED <<args, csv, err, default_creds, search_creds, made, sections,
                   pos, batch, i, results, succeeded, bound, r, indexes,
                   index_docs, view, lag, ncalls, trace>>

\* lines 91-93
RFI_Search ==
    /\ pc = "rfi_search"
    /\ view = index_docs \/ lag < MaxLag
    /\ \E side \in {"first", "last"} :
         /\ side = "last" => Len(view) > Top
         /\ r' = SearchResult(view, side)
    /\ trace' = Append(trace, Event("search", client, args.index, r'.docs, r'.count))
    /\ lag' = IF view = index_docs THEN lag ELSE lag + 1
    /\ pc' = IF PurgeDone(r') THEN "done" ELSE "rfi_delete"
    /\ UNCHANGED <<args, csv, err, default_creds, search_creds, made, client,
                   sections, pos, batch, i, results, succeeded, bound, indexes,
                   index_docs, view, ncalls, out>>

\* lines 94-95
RFI_Delete ==
    /\ pc = "rfi_delete"
    /\ LET keys == KeysOf(r)
       IN /\ trace' = Append(trace, Event("delete_documents", client, args.index, keys, 0))
          /\ index_docs' = Without(index_docs, keys)
          /\ r' = [count |-> Len(keys), docs |-> keys]
          /\ out' = Echo(out, args.verbose, Line("Removed sections from index", Len(keys), 0))
    /\ pc' = "rfi_sleep"
    /\ UNCHANGED <<args, csv, err, default_creds, search_creds, made, client,
                   sections, pos, batch, i, results, succeeded, bound, indexes,
                   view, lag, ncalls>>

\* line 97
RFI_Sleep ==
    /\ pc = "rfi_sleep"
    /\ trace' = Append(trace, Event("sleep", NoClient, "", <<>>, SleepSeconds))
    /\ pc' = "rfi_search"
    /\ UNCHANGED <<args, csv, err, default_creds, search_creds, made, client,
                   sections, pos, batch, i, results, succeeded, bound, r, indexes,
                   index_docs, view, lag, ncalls, out>>

\* lines 96-97: "It can take a few seconds for search results to reflect
\* changes": the service brings its search view up to date
Refresh ==
    /\ view # index_docs
    /\ view' = index_docs
    /\ lag' = 0
    /\ UNCHANGED <<args, csv, pc, err, default_creds, search_creds, made, client,
                   sections, pos, batch, i, results, succeeded, bound, r, indexes,
                   index_docs, ncalls, trace, out>>

----------------------------------------------------------------------------
(* The run of the whole script *)

Headers == {RequiredColumns \cup {"category"}, {"id", "name"}, {"name", "description"}}
RowSizes == {0, 1, BatchSize, MaxRows}

\* how many documents the index holds before the run
DocSizes == {0, 1, 2, Top, MaxDocs}

\* a path that names no file
NoFile == [exists |-> FALSE, fieldnames |-> {}, nrows |-> 0]

Files ==
    {NoFile}
    \cup {[exists |-> TRUE, fieldnames |-> f, nrows |-> n] : f \in Headers, n \in RowSizes}

\* the state of the locals before anything has run
LocalsInit ==
    /\ err = NoErr
    /\ client = NoClient
    /\ pos = 0
    /\ batch = <<>>
    /\ i = 0
    /\ results = <<>>
    /\ succeeded = 0
    /\ bound = {}
    /\ r = [count |-> 0, docs |-> <<>>]
    /\ lag = 0
    /\ ncalls = 0
    /\ trace = <<>>
    /\ out = <<>>

\* the module globals once lines 31-33 have run
CredsResolved ==
    /\ default_creds = ResolveDefaultCreds(args.searchkey)
    /\ search_creds = ResolveSearchCreds(args.searchkey, default_creds)
    /\ made = Constructed(args.searchkey)

\* The state after line 28.  The service answers every request: the index the
\* run reads or writes exists unless the run is one that creates it.
Init ==
    /\ args \in [removeall : BOOLEAN, remove : BOOLEAN, verbose : BOOLEAN,
                  searchkey : {None} \cup Keys, index : {"myindex"}]
    /\ csv \in Files
    /\ pc = "creds"
    /\ default_creds = NoCred
    /\ search_creds = NoCred
    /\ made = <<>>
    /\ indexes \in {<<"other">>, <<"other", "myindex">>}
    /\ (args.removeall \/ args.remove) => ~MustCreate(args.index, indexes)
    /\ index_docs \in {Ids(n) : n \in DocSizes}
    /\ MustCreate(args.index, indexes) => index_docs = <<>>
    /\ view = index_docs
    /\ sections = <<>>
    /\ LocalsInit

Next ==
    \/ Credentials
    \/ Dispatch
    \/ CSI_Start
    \/ CSI_Check("open_csv")
    \/ OpenCSV
    \/ ReadRows
    \/ IS_Start
    \/ IS_Loop
    \/ IS_Final
    \/ RFI_Start
    \/ RFI_Search
    \/ RFI_Delete
    \/ RFI_Sleep
    \/ Refresh

Spec == Init /\ [][Next]_vars

----------------------------------------------------------------------------
(* index_sections on its own, on lists of up to MaxSections records *)

SectionSizes ==
    {0, 1, BatchSize - 1, BatchSize, BatchSize + 1, 2 * BatchSize, MaxSections}

InitIndexSections ==
    /\ args \in [removeall : {FALSE}, remove : {FALSE}, verbose : BOOLEAN,
                  searchkey : {None}, index : {"myindex"}]
    /\ csv = NoFile
    /\ pc = "is_start"
    /\ CredsResolved
    /\ indexes = <<"myindex">>
    /\ index_docs = <<>>
    /\ view = index_docs
    /\ LocalsInit
    /\ sections \in {[k \in 1..n |-> Section(Row(RequiredColumns, k))] : n \in SectionSizes}

NextIndexSections ==
    \/ IS_Start
    \/ IS_Loop
    \/ IS_Final

SpecIndexSections == InitIndexSections /\ [][NextIndexSections]_vars

----------------------------------------------------------------------------
(* create_search_index on its own, called MaxEnsureCalls times in a row *)

\* listings without duplicates
Listings ==
    {s \in UNION {[1..n -> IndexNames] : n \in 0..2} :
        \A a, b \in 1..Len(s) : s[a] = s[b] => a = b}

InitEnsure ==
    /\ args \in [removeall : {FALSE}, remove : {FALSE}, verbose : BOOLEAN,
                  searchkey : {None, "k1"}, index : IndexNames]
    /\ csv = NoFile
    /\ pc = "csi_start"
    /\ CredsResolved
    /\ indexes \in Listings
    /\ index_docs = <<>>
    /\ view = index_docs
    /\ sections = <<>>
    /\ LocalsInit

\* the caller calls create_search_index again
EnsureAgain ==
    /\ pc = "csi_ret"
    /\ ncalls < MaxEnsureCalls
    /\ pc' = "csi_start"
    /\ UNCHANGED <<args, csv, err, default_creds, search_creds, made, client,
                   sections, pos, batch, i, results, succeeded, bound, r, indexes,
                   index_docs, view, lag, ncalls, trace, out>>

NextEnsure ==
    \/ CSI_Start
    \/ CSI_Check("csi_ret")
    \/ EnsureAgain

SpecEnsure == InitEnsure /\ [][NextEnsure]_vars

----------------------------------------------------------------------------
(* remove_from_index on its own, on an index of up to MaxDocs documents *)

InitPurge ==
    /\ args \in [removeall : {TRUE}, remove : BOOLEAN, verbose : BOOLEAN,
                  searchkey : {None, "k1"}, index : {"myindex"}]
    /\ csv = NoFile
    /\ pc = "rfi_start"
    /\ CredsResolved
    /\ indexes = <<"myindex">>
    /\ index_docs \in {Ids(n) : n \in DocSizes}
    /\ view = index_docs
    /\ sections = <<>>
    /\ LocalsInit

\* the steps of the script
PurgeStep ==
    \/ RFI_Start
    \/ RFI_Search
    \/ RFI_Delete
    \/ RFI_Sleep

NextPurge ==
    \/ PurgeStep
    \/ Refresh

\* The interpreter runs the script on; the service's view catches up.
SpecPurge ==
    /\ InitPurge
    /\ [][NextPurge]_vars
    /\ WF_vars(PurgeStep)
    /\ WF_vars(Refresh)

----------------------------------------------------------------------------
(* What the claims speak of *)

\* the run, or the function called on its own, has ended
Ended == pc \in {"done", "failed"}

UploadOps == {"index_documents", "upload_documents"}
EnsureOps == {"list_index_names", "create_index"}
PurgeOps == {"search", "delete_documents"}

Calls(ops) == SelectSeq(trace, LAMBDA e : e.op \in ops)

\* the batches of the upload calls, in the order of the calls
UploadedBatches == LET u == Calls(UploadOps) IN [k \in 1..Len(u) |-> u[k].docs]

CeilDiv(n, d) == (n + d - 1) \div d

Min(a, b) == IF a <= b THEN a ELSE b

\* a list cut into consecutive runs of BatchSize, the last one shorter
Chunks(list) ==
    [k \in 1..CeilDiv(Len(list), BatchSize) |->
        SubSeq(list, (k - 1) * BatchSize + 1, Min(k * BatchSize, Len(list)))]

IndexedLines == SelectSeq(out, LAMBDA l : l.msg = "Indexed sections, succeeded")

Occurrences(x, list) == Cardinality({k \in 1..Len(list) : list[k] = x})

\* the listing before the run: every creation appends one entry
InitialListing == SubSeq(indexes, 1, Len(indexes) - Len(Calls({"create_index"})))

ExpectedCred ==
    IF args.searchkey = None THEN DefaultAzureCredential
    ELSE AzureKeyCredential(args.searchkey)

LacksColumn == csv.exists /\ ~(RequiredColumns \subseteq csv.fieldnames)

----------------------------------------------------------------------------
(* C1: index_sections on N records issues exactly ceil(N / 1000) upload     *)
(* calls; each but the last carries 1000 records, the last N mod 1000 when  *)
(* that is not zero, and no call carries an empty batch.                    *)
C1_UploadCallCount ==
    LET u == UploadedBatches
        n == Len(sections)
    IN /\ \A k \in 1..Len(u) : Len(u[k]) > 0
       /\ Ended =>
            /\ Len(u) = CeilDiv(n, 1000)
            /\ \A k \in 1..(Len(u) - 1) : Len(u[k]) = 1000
            /\ Len(u) > 0 =>
                 Len(u[Len(u)]) = (IF n % 1000 # 0 THEN n % 1000 ELSE 1000)
            /\ n = 0 => Len(u) = 0

C1_Witness ==
    /\ pc = "done"
    /\ Len(sections) = MaxSections
    /\ Len(UploadedBatches) = 3
    /\ Len(UploadedBatches[3]) = MaxSections - 2000

(* C5: in verbose mode index_sections reports attempted and succeeded once  *)
(* for each flush: the run completes normally, the number of "Indexed"      *)
(* lines equals the number of upload calls, each with its own flush's       *)
(* counts.                                                                  *)
C5_OneReportPerFlush ==
    (args.verbose /\ Ended) =>
        /\ pc = "done"
        /\ Len(IndexedLines) = Len(UploadedBatches)
        /\ \A k \in 1..Len(IndexedLines) :
             k <= Len(UploadedBatches) => IndexedLines[k].a = Len(UploadedBatches[k])

(* C7: whatever success flags the service returns, every input record is    *)
(* submitted in exactly one upload call, in input order, in the batches a   *)
(* run without failures makes; a failure flag does not end the run.         *)
C7_FailuresNeitherStopNorRetry ==
    /\ pc = "failed" => "results" \notin bound
    /\ Ended => UploadedBatches = Chunks(sections)

C7_Witness ==
    /\ pc = "done"
    /\ args.verbose
    /\ Len(UploadedBatches) = 3
    /\ Len(IndexedLines) = 3
    /\ IndexedLines[1].b = 0
    /\ IndexedLines[2].b < IndexedLines[2].a

----------------------------------------------------------------------------
(* C2, as the specification states it: in a run without --removeall whose   *)
(* CSV lacks a required column, no index-listing, index-creation or upload  *)
(* call has been issued at the moment the run fails.                        *)
C2_NoRemoteCallBeforeLookupError ==
    (~args.removeall /\ LacksColumn /\ pc = "failed") =>
        Len(Calls(EnsureOps \cup UploadOps)) = 0

(* C2, amended: a CSV with at least one data row whose header lacks a       *)
(* required column makes the run fail with a column-lookup error before any *)
(* upload call; with --remove no remote call at all has been issued at that *)
(* moment, without --remove exactly the index listing, and the creation     *)
(* when the index was absent, have been.                                    *)
C2_LookupErrorBeforeUpload ==
    (~args.removeall /\ LacksColumn) =>
        /\ Len(Calls(UploadOps \cup PurgeOps)) = 0
        /\ csv.nrows > 0 => pc # "done"
        /\ (pc = "failed" /\ csv.nrows > 0) =>
             /\ err = "KeyError"
             /\ Len(trace) >= 1
             /\ trace[Len(trace)].op = "open"
             /\ args.remove => Len(trace) = 1
             /\ ~args.remove =>
                  /\ trace[1].op = "list_index_names"
                  /\ Len(trace) \in {2, 3}
                  /\ Len(trace) = 3 => trace[2].op = "create_index"

C2_Witness ==
    /\ pc = "failed"
    /\ err = "KeyError"
    /\ ~args.removeall
    /\ ~args.remove
    /\ "description" \notin csv.fieldnames
    /\ Len(Calls({"create_index"})) = 1

(* C6: with --removeall the run never opens the CSV file, never lists or    *)
(* creates an index and never uploads, whatever --remove and the file are;  *)
(* its only remote calls are the purge loop's searches and deletes.         *)
C6_RemoveAllBypassesCSV ==
    args.removeall =>
        /\ \A k \in 1..Len(trace) : trace[k].op \in PurgeOps \cup {"sleep"}
        /\ pc \in {"creds", "dispatch", "rfi_start", "rfi_search", "rfi_delete",
                    "rfi_sleep", "done"}
        /\ sections = <<>>
        /\ \A k \in 1..Len(out) : out[k].msg \notin {"Processing CSV file...", "Header:"}

C6_Witness ==
    /\ args.removeall
    /\ args.remove
    /\ csv.exists
    /\ csv.nrows > 0
    /\ pc = "done"
    /\ Len(Calls({"delete_documents"})) >= 1

(* C8: every remote call of a run uses the credential that the presence of  *)
(* --searchkey decides: the key credential built from the key when it is    *)
(* given, the ambient-identity credential when it is not; exactly one       *)
(* credential is constructed in a run and it does not change.               *)
C8_OneCredentialPerRun ==
    /\ \A k \in 1..Len(trace) :
         trace[k].op \in EnsureOps \cup UploadOps \cup PurgeOps => trace[k].cred = ExpectedCred
    /\ pc = "creds" => made = <<>>
    /\ pc # "creds" =>
         /\ made = <<ExpectedCred>>
         /\ search_creds = ExpectedCred
    /\ client # NoClient => client.credential = ExpectedCred

C8_Witness ==
    /\ pc = "done"
    /\ args.searchkey = ""
    /\ Len(Calls({"create_index"})) = 1
    /\ Len(Calls({"index_documents"})) = 1
    /\ Len(Calls({"upload_documents"})) = 1
    /\ \A k \in 1..Len(trace) : trace[k].op # "open" => trace[k].cred = AzureKeyCredential("")

\* the records of the rows of the CSV file
ExpectedSections == [k \in 1..csv.nrows |-> [id |-> k, name |-> k, description |-> k]]

----------------------------------------------------------------------------
\* the calls of create_search_index that have returned
Returned == Len(Calls({"list_index_names"}))

(* C4: create_search_index issues one creation call when the index name is  *)
(* absent from the listing and none when it is present; called again, it    *)
(* issues no creation call and does not fail, and exactly one index of that *)
(* name exists.                                                             *)
C4_EnsureIsIdempotent ==
    /\ err = NoErr
    /\ pc # "failed"
    /\ Occurrences(args.index, indexes) <= 1
    /\ Returned >= 1 =>
         /\ Occurrences(args.index, indexes) = 1
         /\ Len(Calls({"create_index"})) =
              (IF args.index \in Range(InitialListing) THEN 0 ELSE 1)
         /\ \A k \in 1..Len(trace) : trace[k].op = "create_index" =>
              /\ k = 2
              /\ trace[k].name = args.index

C4_Witness ==
    /\ pc = "csi_ret"
    /\ ncalls = 2
    /\ Returned = 2
    /\ Len(Calls({"create_index"})) = 1
    /\ Len(indexes) = 3

----------------------------------------------------------------------------
(* C3: remove_from_index ends after finitely many iterations when the       *)
(* service's search view comes to reflect the deletions, and once it has    *)
(* returned a count query on the index returns 0.                           *)
C3_PurgeTerminatesEmpty ==
    /\ <>(pc = "done")
    /\ [](pc = "done" =>
            /\ SearchResult(view, "first").count = 0
            /\ SearchResult(index_docs, "first").count = 0)

C3_Witness ==
    /\ pc = "done"
    /\ index_docs = <<>>
    /\ view = <<>>
    /\ Len(Calls({"delete_documents"})) >= 3
    /\ \E k \in 4..Len(trace) :
         /\ trace[k].op = "delete_documents"
         /\ trace[k - 3].op = "delete_documents"
         /\ trace[k].docs = trace[k - 3].docs

(* C9: every iteration of the purge loop goes query, stop on a zero count,  *)
(* delete, 2-second pause: a delete follows a query that reported a         *)
(* non-zero count and names exactly the keys of the at most 1000 documents  *)
(* that query returned, a pause follows every delete before the next query, *)
(* and on an empty index there is one query, no delete and no pause.        *)
C9_PurgeIterationOrder ==
    /\ \A k \in 1..Len(trace) :
         /\ trace[k].op \in {"search", "delete_documents", "sleep"}
         /\ trace[k].op = "search" =>
              /\ k > 1 => (trace[k - 1].op = "sleep" /\ trace[k - 1].n = 2)
              /\ Len(trace[k].docs) <= 1000
              /\ trace[k].n = 0 => (k = Len(trace) /\ pc = "done")
              /\ (trace[k].n # 0 /\ k = Len(trace)) => pc = "rfi_delete"
         /\ trace[k].op = "delete_documents" =>
              /\ k > 1
              /\ trace[k - 1].op = "search"
              /\ trace[k - 1].n # 0
              /\ trace[k].docs = trace[k - 1].docs
              /\ Len(trace[k].docs) \in 1..1000
              /\ k = Len(trace) => pc = "rfi_sleep"
         /\ trace[k].op = "sleep" =>
              /\ k > 1
              /\ trace[k - 1].op = "delete_documents"
              /\ k = Len(trace) => pc = "rfi_search"
    /\ pc = "done" => (Len(trace) >= 1 /\ trace[Len(trace)].op = "search")
    /\ (Len(trace) >= 1 /\ trace[1].n = 0) => Len(trace) = 1

C9_Witness ==
    /\ pc = "done"
    /\ Len(trace) = 7
    /\ trace[1].n > Top
    /\ Len(trace[2].docs) = Top
    /\ trace[4].n = 1
    /\ trace[7].n = 0

====
